---- MODULE Spec2Model ----
(***************************************************************************)
(* A model of the prefect_flows repository:                                *)
(*   - the promotion gate and the registry promotion of                    *)
(*     flows/evaluate_pipeline.py,                                         *)
(*   - the drift detector and the weekly ingestion flow of                 *)
(*     flows/weekly_data_ingest_and_drift.py,                              *)
(*   - the daily upload of flows/daily_upload.py (test.py holds an older   *)
(*     copy of it with the same sequence of S3 calls).                     *)
(*                                                                         *)
(* Numbers.  Metric values (floats in the code) are fixed-point integers   *)
(* in hundredths: 0.02 is 2, 0.01 is 1.  Drift scores are exact rationals  *)
(* [num, den].                                                             *)
(***************************************************************************)
EXTENDS Integers, Sequences, FiniteSets, TLC

(***************************************************************************)
(* Bounds of the model.                                                    *)
(***************************************************************************)
MaxChallengerMetric == 3    \* challenger metric values are 0..3 hundredths
MaxIncumbentMetric == 1     \* incumbent metric values are 0..1 hundredths
MaxVersions == 3            \* registered model versions 1..MaxVersions
MaxFlowRuns == 2            \* evaluate_pipeline runs (a run and its rerun, or two at once)
MaxImages == 31             \* image entries of processed_files: 0..MaxImages
MaxLabels == 1              \* label entries of processed_files: 0..MaxLabels
SplitAt == 15               \* the first SplitAt candidate images are of one kind
SmallBaseline == 4          \* images of a baseline smaller than the candidates
MaxBatchFolders == 2        \* batch folders under incoming/raw
MaxBatchImages == 2         \* images of a small batch folder: 0..MaxBatchImages
MaxFailIndex == 1           \* copies of the first MaxFailIndex keys of a list may fail
MaxPoolImages == 2          \* images of the simulation pool: 0..MaxPoolImages

VARIABLES
    \* print_and_compare_metrics called on its own
    incoming_metrics,   \* the challenger's metric mapping
    prod_metrics,       \* the incumbent's metric mapping
    gate,               \* the outcome of the call: [called, raised, value]
    \* the model registry and the evaluate_pipeline flow runs
    stage,              \* registry: version -> stage
    metrics,            \* tracking server: run_id -> metric mapping
    ev,                 \* flow run -> its position and locals
    transitions,        \* the stage transitions performed, in order
    \* detect_drift and its object store
    processed_files,    \* the candidate keys, each with the object stored under it
    baseline,           \* datasets/baseline/train/: [status, keys]
    ks_crit,            \* the KS distance at which scipy's p-value is 0.05
    dd,                 \* the last detect_drift call: <<>> or <<[override, outcome,
                        \* again: the call before it had the same override]>>
    \* the object store of the ingestion flows
    raw,                \* the objects under datasets/incoming/raw/batch_*/
    weekly_batch,       \* the objects under the run's processed/weekly_batch_*/
    pool,               \* the objects under datasets/simulation_pool/
    \* weekly_ingestion_pipeline and the daily upload running beside it
    wk,                 \* the weekly flow run: its position, locals and result
    uploaded,           \* the daily upload has added an object during the run
    \* daily_batch_upload and its move_batch call
    mb                  \* the daily flow run: its position, locals and result

vars == <<incoming_metrics, prod_metrics, gate, stage, metrics, ev, transitions,
          processed_files, baseline, ks_crit, dd,
          raw, weekly_batch, pool, wk, uploaded, mb>>

gateVars == <<incoming_metrics, prod_metrics, gate>>
evalVars == <<stage, metrics, ev, transitions>>
driftVars == <<processed_files, baseline, ks_crit, dd>>
ingestVars == <<raw, weekly_batch, pool, wk, uploaded, mb>>

None == "None"

(***************************************************************************)
(* The promotion gate: print_and_compare_metrics.                          *)
(***************************************************************************)
K_MAP50_95 == "metrics/mAP50-95B"
K_MAP50 == "metrics/mAP50B"
K_PRECISION == "metrics/precisionB"
K_RECALL == "metrics/recallB"

GateKeys == {K_MAP50_95, K_MAP50, K_PRECISION, K_RECALL}

\* the improvement margins, in hundredths
MAP50_95_MARGIN == 2
MAP50_MARGIN == 2
PRECISION_MARGIN == 1
RECALL_MARGIN == 1

\* Python values that may be None: None is <<>>, the number x is <<x>>
PyNone == <<>>
PyNum(x) == <<x>>
NumOf(v) == v[1]

\* dict.get(k): None when the key is absent
DictGetNoDefault(d, k, default) == IF k \in DOMAIN d THEN PyNum(d[k]) ELSE PyNone

\* dict.get(k, default)
DictGet(d, k, default) == IF k \in DOMAIN d THEN PyNum(d[k]) ELSE PyNum(default)

\* the gate with > in place of >= on the mandatory metric
Map5095PassedStrict(diff) == diff > MAP50_95_MARGIN

\* map50_95_passed = map50_95_diff >= 0.02
Map5095Passed(diff) == diff >= MAP50_95_MARGIN

\* other_metric_passed = map50_passed or precision_passed or recall_passed
OtherMetricPassed(map50_diff, precision_diff, recall_diff) ==
    LET map50_passed == map50_diff >= MAP50_MARGIN
        precision_passed == precision_diff >= PRECISION_MARGIN
        recall_passed == recall_diff >= RECALL_MARGIN
    IN  map50_passed \/ precision_passed \/ recall_passed

\* The task: what it returns or raises, and whether it logged the comparison
\* before returning.  Arithmetic on None raises TypeError, as in Python.
print_and_compare_metrics(inc, prod) ==
    LET inc_map50_95 == DictGet(inc, K_MAP50_95, 0)
        prod_map50_95 == DictGet(prod, K_MAP50_95, 0)
        inc_map50 == DictGet(inc, K_MAP50, 0)
        prod_map50 == DictGet(prod, K_MAP50, 0)
        inc_precision == DictGet(inc, K_PRECISION, 0)
        prod_precision == DictGet(prod, K_PRECISION, 0)
        inc_recall == DictGet(inc, K_RECALL, 0)
        prod_recall == DictGet(prod, K_RECALL, 0)
        operands == {inc_map50_95, prod_map50_95, inc_map50, prod_map50,
                     inc_precision, prod_precision, inc_recall, prod_recall}
    IN  IF PyNone \in operands
        THEN [raised |-> "TypeError", value |-> FALSE, logged |-> FALSE]
        ELSE LET map50_95_diff == NumOf(inc_map50_95) - NumOf(prod_map50_95)
                 map50_diff == NumOf(inc_map50) - NumOf(prod_map50)
                 precision_diff == NumOf(inc_precision) - NumOf(prod_precision)
                 recall_diff == NumOf(inc_recall) - NumOf(prod_recall)
                 map50_95_passed == Map5095Passed(map50_95_diff)
                 other_metric_passed ==
                     OtherMetricPassed(map50_diff, precision_diff, recall_diff)
                 should_promote == map50_95_passed /\ other_metric_passed
             IN  [raised |-> None, value |-> should_promote, logged |-> TRUE]

\* metric mappings over the gate's keys, any of which may be absent
MetricMappings(maxVal) ==
    UNION {[D -> 0..maxVal] : D \in SUBSET GateKeys}

NotCalled == [called |-> FALSE, raised |-> None, value |-> FALSE, logged |-> FALSE]

\* a call of the task on the mappings at hand
CallGate ==
    /\ ~gate.called
    /\ LET r == print_and_compare_metrics(incoming_metrics, prod_metrics)
       IN  gate' = [called |-> TRUE, raised |-> r.raised, value |-> r.value,
                    logged |-> r.logged]
    /\ UNCHANGED <<incoming_metrics, prod_metrics, evalVars, driftVars,
                   ingestVars>>

(***************************************************************************)
(* The model registry and the evaluate_pipeline flow.                      *)
(***************************************************************************)
Versions == 1..MaxVersions
\* version v was registered from run v; the last run has no registered version
RunIds == 1..(MaxVersions + 1)
FlowRuns == 1..MaxFlowRuns
Stages == {"None", "Staging", "Production", "Archived"}
\* the stages of the registries the flow is started on: no code of the
\* repository moves a version to Staging
InitialStages == Stages \ {"Staging"}

run_id_of(v) == v

\* the metric mappings the tracking server holds in the flow's model
BaseMetrics == [k \in GateKeys |-> 0]
BetterMetrics ==
    [k \in GateKeys |-> IF k \in {K_MAP50_95, K_MAP50} THEN MAP50_95_MARGIN ELSE 0]
Profiles == {BaseMetrics, BetterMetrics}
\* what the tracking server holds: either mapping for the run of a registered
\* version, the better one for the run that has no registered version
InitialMetrics ==
    {m \in [RunIds -> Profiles] : m[MaxVersions + 1] = BetterMetrics}

InStage(st, s) == {v \in Versions : st[v] = s}

Max(S) == CHOOSE x \in S : \A y \in S : y <= x

\* get_latest_versions that ignores the stage asked for
LatestVersionsAnyStage(st, s) == <<Max(Versions)>>

\* client.get_latest_versions(model_name, stages=[s]): the newest version in
\* stage s, if any
LatestVersions(st, s) ==
    IF InStage(st, s) = {} THEN <<>> ELSE <<Max(InStage(st, s))>>

\* client.search_model_versions: the versions of the model, newest first
SearchModelVersions == [i \in 1..MaxVersions |-> MaxVersions + 1 - i]

\* the search that falls back to the newest version
FindIncomingVersionOrNewest(all_versions, incoming_run_id) ==
    LET hits == {i \in 1..Len(all_versions) :
                    run_id_of(all_versions[i]) = incoming_run_id}
    IN  IF hits = {} THEN all_versions[1]
        ELSE all_versions[CHOOSE i \in hits : \A j \in hits : i <= j]

\* the loop of promote_model_to_production: the first version whose run_id is
\* the incoming run's, 0 for None
FindIncomingVersion(all_versions, incoming_run_id) ==
    LET hits == {i \in 1..Len(all_versions) :
                    run_id_of(all_versions[i]) = incoming_run_id}
    IN  IF hits = {} THEN 0
        ELSE all_versions[CHOOSE i \in hits : \A j \in hits : i <= j]

\* a transition that leaves the registry as it was
TransitionStageNoop(st, version, to) == st

\* client.transition_model_version_stage(..., archive_existing_versions=False)
TransitionStage(st, version, to) == [st EXCEPT ![version] = to]

\* the promotion that moves the challenger first and archives afterwards
FirstTransitionPromoteFirst(prod_version, incoming_version) ==
    [version |-> incoming_version, to |-> "Production"]

\* the first and the second transition of promote_model_to_production
FirstTransition(prod_version, incoming_version) ==
    [version |-> prod_version, to |-> "Archived"]

SecondTransition(prod_version, incoming_version) ==
    [version |-> incoming_version, to |-> "Production"]

\* a flow run that has not started
IdleRun ==
    [pc |-> "idle", incoming_run_id |-> 0, incoming_metrics |-> <<>>,
     prod_run_id |-> 0, prod_version |-> 0, prod_metrics |-> <<>>,
     gate_called |-> FALSE, should_promote |-> FALSE, incoming_version |-> 0,
     error |-> None, failed_at |-> None, stage_at_start |-> <<>>]

Ended(r) == ev[r].pc \in {"done", "failed"}
Started(r) == ev[r].pc # "idle"

\* evaluate_pipeline(incoming_run_id, model_name) is started; runs are started
\* one after the other
StartEvaluate(r, incoming_run_id) ==
    /\ ev[r].pc = "idle"
    /\ \A q \in FlowRuns : q < r => Ended(q)
    /\ ev' = [ev EXCEPT ![r] = [IdleRun EXCEPT !.pc = "get_incoming_metrics",
                                               !.incoming_run_id = incoming_run_id,
                                               !.stage_at_start = stage]]
    /\ UNCHANGED <<stage, metrics, transitions, gateVars, driftVars, ingestVars>>

\* evaluate_pipeline(incoming_run_id, model_name) is started while other runs
\* of the flow are under way: nothing in the flow waits for another run
StartEvaluateBeside(r, incoming_run_id) ==
    /\ ev[r].pc = "idle"
    /\ \A q \in FlowRuns : q < r => Started(q)
    /\ ev' = [ev EXCEPT ![r] = [IdleRun EXCEPT !.pc = "get_incoming_metrics",
                                               !.incoming_run_id = incoming_run_id,
                                               !.stage_at_start = stage]]
    /\ UNCHANGED <<stage, metrics, transitions, gateVars, driftVars, ingestVars>>

\* incoming_metrics = get_latest_metrics_for_run(client, incoming_run_id)
GetIncomingMetrics(r) ==
    /\ ev[r].pc = "get_incoming_metrics"
    /\ ev' = [ev EXCEPT ![r].incoming_metrics = metrics[ev[r].incoming_run_id],
                        ![r].pc = "get_production_run_info"]
    /\ UNCHANGED <<stage, metrics, transitions, gateVars, driftVars, ingestVars>>

\* prod_run_id, prod_version = get_production_run_info(client, model_name)
GetProductionRunInfo(r) ==
    /\ ev[r].pc = "get_production_run_info"
    /\ LET latest == LatestVersions(stage, "Production")
       IN  IF latest = <<>>
           THEN ev' = [ev EXCEPT ![r].pc = "failed",
                                 ![r].error = "ValueError",
                                 ![r].failed_at = "get_production_run_info"]
           ELSE ev' = [ev EXCEPT ![r].prod_run_id = run_id_of(latest[1]),
                                 ![r].prod_version = latest[1],
                                 ![r].pc = "get_prod_metrics"]
    /\ UNCHANGED <<stage, metrics, transitions, gateVars, driftVars, ingestVars>>

\* prod_metrics = get_latest_metrics_for_run(client, prod_run_id)
GetProdMetrics(r) ==
    /\ ev[r].pc = "get_prod_metrics"
    /\ ev' = [ev EXCEPT ![r].prod_metrics = metrics[ev[r].prod_run_id],
                        ![r].pc = "compare"]
    /\ UNCHANGED <<stage, metrics, transitions, gateVars, driftVars, ingestVars>>

\* should_promote = print_and_compare_metrics(...), and the branch on it
Compare(r) ==
    /\ ev[r].pc = "compare"
    /\ LET res == print_and_compare_metrics(ev[r].incoming_metrics,
                                            ev[r].prod_metrics)
       IN  IF res.raised # None
           THEN ev' = [ev EXCEPT ![r].pc = "failed",
                                 ![r].gate_called = TRUE,
                                 ![r].error = res.raised,
                                 ![r].failed_at = "compare"]
           ELSE ev' = [ev EXCEPT ![r].should_promote = res.value,
                                 ![r].gate_called = TRUE,
                                 ![r].pc = IF res.value THEN "search" ELSE "done"]
    /\ UNCHANGED <<stage, metrics, transitions, gateVars, driftVars, ingestVars>>

\* promote_model_to_production up to its first transition: the search for the
\* incoming run's version
PromoteSearch(r) ==
    /\ ev[r].pc = "search"
    /\ LET incoming_version ==
               FindIncomingVersion(SearchModelVersions, ev[r].incoming_run_id)
       IN  IF incoming_version = 0
           THEN ev' = [ev EXCEPT ![r].pc = "failed",
                                 ![r].error = "ValueError",
                                 ![r].failed_at = "search"]
           ELSE ev' = [ev EXCEPT ![r].incoming_version = incoming_version,
                                 ![r].pc = "first_transition"]
    /\ UNCHANGED <<stage, metrics, transitions, gateVars, driftVars, ingestVars>>

\* the first transition_model_version_stage call
PromoteFirstTransition(r) ==
    /\ ev[r].pc = "first_transition"
    /\ LET t == FirstTransition(ev[r].prod_version, ev[r].incoming_version)
       IN  /\ stage' = TransitionStage(stage, t.version, t.to)
           /\ transitions' = Append(transitions,
                                    [run |-> r, version |-> t.version, to |-> t.to])
    /\ ev' = [ev EXCEPT ![r].pc = "second_transition"]
    /\ UNCHANGED <<metrics, gateVars, driftVars, ingestVars>>

\* the second transition_model_version_stage call, and the end of the flow
PromoteSecondTransition(r) ==
    /\ ev[r].pc = "second_transition"
    /\ LET t == SecondTransition(ev[r].prod_version, ev[r].incoming_version)
       IN  /\ stage' = TransitionStage(stage, t.version, t.to)
           /\ transitions' = Append(transitions,
                                    [run |-> r, version |-> t.version, to |-> t.to])
    /\ ev' = [ev EXCEPT ![r].pc = "done"]
    /\ UNCHANGED <<metrics, gateVars, driftVars, ingestVars>>

\* a transition call fails (the registry is unreachable, the worker dies):
\* the exception ends the flow run and the registry is left as it is
TransitionFails(r) ==
    /\ ev[r].pc \in {"first_transition", "second_transition"}
    /\ ev' = [ev EXCEPT ![r].pc = "failed",
                        ![r].error = "MlflowException",
                        ![r].failed_at = ev[r].pc]
    /\ UNCHANGED <<stage, metrics, transitions, gateVars, driftVars, ingestVars>>

(***************************************************************************)
(* The drift detector: detect_drift.                                       *)
(***************************************************************************)
MIN_IMAGES == 30            \* num_images < 30: the check is skipped
SIGNIFICANCE == 50          \* p < 0.05, p-values in thousandths

PropNames == <<"brightness", "contrast", "r_mean", "g_mean", "b_mean">>

\* What the object store holds under an image key: an object that cannot be
\* fetched or decoded, or an image given by its decoded array's statistics.
Corrupt == [ok |-> FALSE, rgb |-> FALSE, mean |-> 0, std |-> 0,
            ch |-> <<0, 0, 0>>]
\* a black grayscale image
Dark == [ok |-> TRUE, rgb |-> FALSE, mean |-> 0, std |-> 0, ch |-> <<0, 0, 0>>]
\* a uniform grayscale image of value 2
Gray == [ok |-> TRUE, rgb |-> FALSE, mean |-> 2, std |-> 0, ch |-> <<0, 0, 0>>]
\* the RGB image of the two pixels (4,4,0) and (4,0,0)
Red == [ok |-> TRUE, rgb |-> TRUE, mean |-> 2, std |-> 2, ch |-> <<4, 2, 0>>]

\* get_image_properties of a decodable object
get_image_properties(body) ==
    LET brightness == body.mean
        contrast == body.std
    IN  IF body.rgb
        THEN [brightness |-> brightness, contrast |-> contrast,
              r_mean |-> body.ch[1], g_mean |-> body.ch[2], b_mean |-> body.ch[3]]
        ELSE [brightness |-> brightness, contrast |-> contrast,
              r_mean |-> brightness, g_mean |-> brightness, b_mean |-> brightness]

Abs(x) == IF x < 0 THEN -x ELSE x

\* the number of values of a sample that are <= v
CountLE(vals, v) == Cardinality({i \in DOMAIN vals : vals[i] <= v})

\* The KS statistic of two non-empty samples, as its numerator over
\* Len(a) * Len(b): the largest distance between the two empirical CDFs.
KSStatisticNum(a, b) ==
    LET pts == {a[i] : i \in DOMAIN a} \cup {b[i] : i \in DOMAIN b}
    IN  Max({Abs(CountLE(a, v) * Len(b) - CountLE(b, v) * Len(a)) : v \in pts})

\* scipy's p-value, in thousandths, for a KS distance num / (n1 * n2).  The
\* library is outside the repository: the model takes a p-value that decreases
\* with the distance, 0.01 above the distance crit, exactly 0.05 at it and 0.5
\* below it, for each crit the initial states draw.
KSPValue(num, n1, n2, crit) ==
    IF num * crit.den > crit.num * n1 * n2 THEN 10
    ELSE IF num * crit.den = crit.num * n1 * n2 THEN 50
    ELSE 500

\* statistic, pvalue = ks_2samp(baseline_vals, weekly_vals)
ks_2samp(a, b, crit) ==
    LET num == KSStatisticNum(a, b)
    IN  [statistic |-> num, pvalue |-> KSPValue(num, Len(a), Len(b), crit)]

\* the verdict with <= in place of <
SignificantDriftInclusive(drift_scores) ==
    \E i \in DOMAIN PropNames : drift_scores[PropNames[i]].pvalue <= SIGNIFICANCE

\* significant_drift = any(s['pvalue'] < 0.05 for s in drift_scores.values())
SignificantDrift(drift_scores) ==
    \E i \in DOMAIN PropNames : drift_scores[PropNames[i]].pvalue < SIGNIFICANCE

RECURSIVE SumStatistics(_, _)
SumStatistics(drift_scores, i) ==
    IF i = 0 THEN 0
    ELSE drift_scores[PropNames[i]].statistic + SumStatistics(drift_scores, i - 1)

\* the mean that leaves the last statistic out
AvgDriftScoreOfFour(drift_scores, n1, n2) ==
    [num |-> SumStatistics(drift_scores, Len(PropNames) - 1),
     den |-> (Len(PropNames) - 1) * n1 * n2]

\* float(np.mean([s['statistic'] ...])) as a rational: the statistics are
\* numerators over n1 * n2
AvgDriftScore(drift_scores, n1, n2) ==
    [num |-> SumStatistics(drift_scores, Len(PropNames)),
     den |-> Len(PropNames) * n1 * n2]

Score(n, d) == [num |-> n, den |-> d]

IsImageKey(f) == f.dir = "images"

\* baseline keys that end in .jpg, .jpeg or .png
IsImageExt(k) == k.ext \in {"jpg", "jpeg", "png"}

\* 0, or the index of the first object of the sequence that cannot be read
FirstUnreadable(keys) ==
    LET bad == {i \in DOMAIN keys : ~keys[i].body.ok}
    IN  IF bad = {} THEN 0 ELSE CHOOSE i \in bad : \A j \in bad : i <= j

\* the first elements of s, as many as keep has
SubSeqAtPrefix(s, keep, i) == SubSeq(s, 1, Cardinality(keep))

\* the subsequence of s at the indices in keep, in order
RECURSIVE SubSeqAt(_, _, _)
SubSeqAt(s, keep, i) ==
    IF i > Len(s) THEN <<>>
    ELSE (IF i \in keep THEN <<s[i]>> ELSE <<>>) \o SubSeqAt(s, keep, i + 1)

\* the size check that lets 29 images through
TooFewImagesOffByOne(num_images) == num_images < MIN_IMAGES - 1

\* if num_images < 30
TooFewImages(num_images) == num_images < MIN_IMAGES

\* the override branch that falls through to the statistical check
OverrideResultNone(override_drift) == <<>>

\* if override_drift is True: ... elif override_drift is False: ...
\* (<<>> when neither branch returns)
OverrideResult(override_drift) ==
    IF override_drift = "True" THEN <<[drift |-> TRUE, score |-> Score(67, 100)]>>
    ELSE IF override_drift = "False"
    THEN <<[drift |-> FALSE, score |-> Score(32, 100)]>>
    ELSE <<>>

\* the handler of the exception that lets it through
OnExceptionRaise(e) == [raised |-> e, result |-> <<>>]

\* except Exception as e: ... return (False, 0.0)
OnException(e) ==
    [raised |-> None, result |-> <<[drift |-> FALSE, score |-> Score(0, 1)]>>]

NoScores == <<>>

\* the baseline that is never sampled
BaselineSampleAlwaysFull(baseline_images, num_images, sample) == baseline_images

\* if len(baseline_images) > num_images:
\*     baseline_sample = random.sample(baseline_images, num_images)
\* else: baseline_sample = baseline_images
\* (sample: the positions of the baseline images that random.sample draws)
BaselineSample(baseline_images, num_images, sample) ==
    IF Len(baseline_images) > num_images
    THEN SubSeqAt(baseline_images, sample, 1)
    ELSE baseline_images

\* a printed line: which print statement, and the count it reports
Line(what, n) == [line |-> what, n |-> n]

\* One call of detect_drift.  sample is the set of baseline indices that
\* random.sample draws when the baseline is larger than the candidate set.
\* The outcome tells what the call returned or raised, the object-store calls
\* it made (listings, objects fetched), the KS tests it ran and what it printed.
\* The except clause catches what the try block raises: the listing, the
\* fetching and decoding of the images, and ks_2samp.
detect_drift(files, override_drift, base, crit, sample) ==
    LET early == OverrideResult(override_drift)
        weekly_images == SelectSeq(files, IsImageKey)
        num_images == Len(weekly_images)
        outcome(res, lists, gets, tests, scores, out) ==
            [raised |-> res.raised, result |-> res.result, lists |-> lists,
             gets |-> gets, tests |-> tests, drift_scores |-> scores, out |-> out,
             baseline_sample |-> <<>>]
        returns(v) == [raised |-> None, result |-> <<v>>]
    IN  IF early # <<>>
        THEN outcome(returns(early[1]), 0, 0, 0, NoScores, <<>>)
        ELSE IF TooFewImages(num_images)
        THEN outcome(returns([drift |-> FALSE, score |-> Score(0, 1)]),
                     0, 0, 0, NoScores, <<Line("skipping", num_images)>>)
        ELSE IF base.status = "error"
        THEN outcome(OnException("ClientError"), 1, 0, 0, NoScores,
                     <<Line("error", 0)>>)
        ELSE IF base.status = "no_contents"
        THEN outcome(returns([drift |-> FALSE, score |-> Score(0, 1)]),
                     1, 0, 0, NoScores, <<Line("no_baseline", 0)>>)
        ELSE
        LET baseline_images == SelectSeq(base.keys, IsImageExt)
            baseline_sample == BaselineSample(baseline_images, num_images, sample)
            bad_b == FirstUnreadable(baseline_sample)
            bad_w == FirstUnreadable(weekly_images)
            extract_baseline == Line("extract_baseline", Len(baseline_sample))
            extract_weekly == Line("extract_weekly", num_images)
        IN  IF bad_b # 0
            THEN outcome(OnException("ImageError"), 1, bad_b, 0, NoScores,
                         <<extract_baseline, Line("error", 0)>>)
            ELSE IF bad_w # 0
            THEN outcome(OnException("ImageError"), 1,
                         Len(baseline_sample) + bad_w, 0, NoScores,
                         <<extract_baseline, extract_weekly, Line("error", 0)>>)
            ELSE IF baseline_sample = <<>>
            THEN \* ks_2samp raises ValueError on an empty sample
                 outcome(OnException("ValueError"), 1, num_images, 0, NoScores,
                         <<extract_baseline, extract_weekly, Line("error", 0)>>)
            ELSE
            LET baseline_props ==
                    [i \in DOMAIN baseline_sample |->
                        get_image_properties(baseline_sample[i].body)]
                weekly_props ==
                    [i \in DOMAIN weekly_images |->
                        get_image_properties(weekly_images[i].body)]
                n1 == Len(baseline_sample)
                n2 == Len(weekly_images)
                drift_scores ==
                    [prop \in {PropNames[i] : i \in DOMAIN PropNames} |->
                        ks_2samp([i \in DOMAIN baseline_props |-> baseline_props[i][prop]],
                                 [i \in DOMAIN weekly_props |-> weekly_props[i][prop]],
                                 crit)]
                avg_drift_score == AvgDriftScore(drift_scores, n1, n2)
                drift_detected == SignificantDrift(drift_scores)
            IN  [outcome(returns([drift |-> drift_detected,
                                  score |-> avg_drift_score]),
                         1, n1 + n2, Len(PropNames), drift_scores,
                         <<extract_baseline, extract_weekly,
                           Line("drift_analysis", Len(PropNames))>>)
                 EXCEPT !.baseline_sample = baseline_sample]

\* the subsets of S that have k elements
RECURSIVE KSubsets(_, _)
KSubsets(S, k) ==
    IF k = 0 THEN {{}}
    ELSE UNION {{X \cup {x} : X \in KSubsets({y \in S : y > x}, k - 1)} : x \in S}

\* the samples random.sample can draw in a call: the subsets of num_images
\* indices of the baseline images; the whole baseline when no sample is drawn
Samples(files, override_drift, base) ==
    LET num_images == Len(SelectSeq(files, IsImageKey))
        nb == IF base.status = "ok" THEN Len(SelectSeq(base.keys, IsImageExt)) ELSE 0
    IN  IF OverrideResult(override_drift) = <<>> /\ ~TooFewImages(num_images)
           /\ nb > num_images
        THEN {(1..nb) \ X : X \in KSubsets(1..nb, nb - num_images)}
        ELSE {1..nb}

Overrides == {"True", "False", "None"}

\* a list in another order: its first element moved to the end, its first
\* two elements swapped, or the list reversed
Reorder(s, how) ==
    IF Len(s) < 2 \/ how = "same" THEN s
    ELSE IF how = "rotated" THEN Tail(s) \o <<Head(s)>>
    ELSE IF how = "swapped" THEN <<s[2], s[1]>> \o SubSeq(s, 3, Len(s))
    ELSE [i \in 1..Len(s) |-> s[Len(s) + 1 - i]]

Reorderings ==
    {<<"rotated", "same">>, <<"same", "swapped">>, <<"reversed", "reversed">>}

\* the positions, in the reordered listing, of the baseline images that are at
\* the positions sample of the listing
SameImages(keys, reordered, sample) ==
    LET images == SelectSeq(keys, IsImageExt)
        images2 == SelectSeq(reordered, IsImageExt)
    IN  {j \in DOMAIN images2 :
            \E i \in sample \cap DOMAIN images : images[i].name = images2[j].name}

\* The task is called by the flow, and a call with the override set is
\* repeated.  Beside the call, the record of it keeps what the call
\* returns when the candidate keys and the baseline listing come in another
\* order and random.sample draws the same baseline images.
CallDetectDrift(override_drift) ==
    /\ IF dd = <<>> THEN TRUE
       ELSE override_drift # "None" /\ dd[1].override = override_drift
    /\ \E sample \in Samples(processed_files, override_drift, baseline),
          how \in Reorderings :
        LET o == detect_drift(processed_files, override_drift, baseline,
                              ks_crit, sample)
            keys2 == Reorder(baseline.keys, how[1])
            o2 == detect_drift(Reorder(processed_files, how[2]), override_drift,
                               [baseline EXCEPT !.keys = keys2], ks_crit,
                               SameImages(baseline.keys, keys2, sample))
        IN  /\ dd' = <<[override |-> override_drift, outcome |-> o,
                         again |-> dd # <<>> /\ dd[1].override = override_drift,
                         reordering |-> how,
                         reordered |-> [raised |-> o2.raised,
                                        result |-> o2.result]]>>
            /\ UNCHANGED <<processed_files, baseline, ks_crit, gateVars, evalVars,
                           ingestVars>>

\* the candidate keys of a weekly batch: n images, the first SplitAt of kind a
\* and the others of kind b, and l labels, before or after the images
Candidates(n, a, b, l, labelsFirst) ==
    LET images == [i \in 1..n |-> [dir |-> "images",
                                   body |-> IF i <= SplitAt THEN a ELSE b]]
        labels == [i \in 1..l |-> [dir |-> "labels", body |-> Corrupt]]
    IN  IF labelsFirst THEN labels \o images ELSE images \o labels

\* the keys under datasets/baseline/train/: n images of kind a, the first one
\* unreadable if firstBad, and a label file
BaselineKeys(n, a, firstBad) ==
    [i \in 1..n |-> [name |-> i, ext |-> IF i % 2 = 0 THEN "jpg" ELSE "png",
                     body |-> IF firstBad /\ i = 1 THEN Corrupt ELSE a]]
    \o <<[name |-> 0, ext |-> "txt", body |-> Corrupt]>>

\* no baseline image, fewer than the candidates, one more than MIN_IMAGES
BaselineSizes == {0, SmallBaseline, MIN_IMAGES + 1}

(***************************************************************************)
(* The weekly ingestion flow: weekly_ingestion_pipeline and its tasks.     *)
(* An object of a batch folder is [folder, dir, name, body]: the batch     *)
(* folder, images/ or labels/ below it, the file's name and what it holds. *)
(***************************************************************************)
BatchFolders == 1..MaxBatchFolders

\* batch_date = datetime.now().strftime("%Y%m%d"): the batch folder of the day
Today == 1

RawObject(f, dir, name, body) ==
    [folder |-> f, dir |-> dir, name |-> name, body |-> body]

\* new_key = f'{weekly_batch_prefix}images/{filename}' (labels/ for a label),
\* with the object copy_object stores under it
NewObject(o) == [dir |-> o.dir, name |-> o.name, body |-> o.body]

\* the order of the keys of a listing; a name is a pair of numbers
KeyLess(a, b) ==
    \/ a.name[1] < b.name[1]
    \/ a.name[1] = b.name[1] /\ a.name[2] < b.name[2]

RECURSIVE SortKeys(_)
SortKeys(S) ==
    IF S = {} THEN <<>>
    ELSE LET m == CHOOSE x \in S : \A y \in S : x = y \/ KeyLess(x, y)
         IN  <<m>> \o SortKeys(S \ {m})

\* s3.list_objects_v2(Prefix=f'{batch_folder}images/') and ...labels/
ListObjects(store, batch_folder, dir) ==
    SortKeys({o \in store : o.folder = batch_folder /\ o.dir = dir})

\* get_batch_folders: the batch_ prefixes under incoming/raw that hold an object
get_batch_folders(store) ==
    SelectSeq([f \in BatchFolders |-> f],
              LAMBDA f : \E o \in store : o.folder = f)

\* the loop of get_files_from_batches, from the i-th batch folder on
RECURSIVE get_files_from_batches(_, _, _, _)
get_files_from_batches(store, batch_folders, dir, i) ==
    IF i > Len(batch_folders) THEN <<>>
    ELSE ListObjects(store, batch_folders[i], dir)
             \o get_files_from_batches(store, batch_folders, dir, i + 1)

\* preprocess_and_move: every image and then every label is copied to the
\* weekly batch; a copy that fails (failed_images, failed_labels: positions in
\* the two lists) is printed and skipped.  processed_files are the keys copied.
preprocess_and_move(images, labels, failed_images, failed_labels) ==
    LET copied == SubSeqAt(images, (DOMAIN images) \ failed_images, 1)
                      \o SubSeqAt(labels, (DOMAIN labels) \ failed_labels, 1)
    IN  [i \in DOMAIN copied |-> NewObject(copied[i])]

\* cleanup_batch_folders: the objects listed under the batch folders, which
\* delete_objects deletes
cleanup_batch_folders(store, batch_folders) ==
    {o \in store : \E i \in DOMAIN batch_folders : o.folder = batch_folders[i]}

\* the flow's branch on the verdict that always retrains
DriftBranchAlways(drift_detected) == [trigger |-> TRUE, status |-> "retrained"]

\* if drift_detected: trigger_sagemaker_job(...); return {"status": "retrained"}
\* else: return {"status": "no_retrain_needed"}
DriftBranch(drift_detected) ==
    IF drift_detected THEN [trigger |-> TRUE, status |-> "retrained"]
    ELSE [trigger |-> FALSE, status |-> "no_retrain_needed"]

\* a weekly flow run that has not started
IdleWeekly ==
    [pc |-> "idle", override_drift |-> None, batch_folders |-> <<>>,
     images |-> <<>>, labels |-> <<>>, deleted |-> {}, drift |-> <<>>,
     calls |-> <<>>, result |-> <<>>]

\* the positions of a list at which a copy may fail
FailIndices(keys) == {i \in DOMAIN keys : i <= MaxFailIndex}

\* weekly_ingestion_pipeline(override_drift) starts: get_batch_folders and the
\* branch on its result
WeeklyGetBatchFolders(override_drift) ==
    /\ wk.pc = "idle"
    /\ LET batch_folders == get_batch_folders(raw)
       IN  wk' = [wk EXCEPT
                    !.override_drift = override_drift,
                    !.batch_folders = batch_folders,
                    !.calls = Append(@, "get_batch_folders"),
                    !.pc = IF batch_folders = <<>> THEN "returned"
                           ELSE "get_files_from_batches",
                    !.result = IF batch_folders = <<>>
                               THEN <<[status |-> "no_new_data"]>> ELSE <<>>]
    /\ UNCHANGED <<raw, weekly_batch, pool, uploaded, mb, gateVars, evalVars,
                   driftVars>>

\* images, labels = get_files_from_batches(batch_folders), and the branch
WeeklyGetFiles ==
    /\ wk.pc = "get_files_from_batches"
    /\ LET images == get_files_from_batches(raw, wk.batch_folders, "images", 1)
           labels == get_files_from_batches(raw, wk.batch_folders, "labels", 1)
       IN  wk' = [wk EXCEPT
                    !.images = images,
                    !.labels = labels,
                    !.calls = Append(@, "get_files_from_batches"),
                    !.pc = IF images = <<>> THEN "returned"
                           ELSE "preprocess_and_move",
                    !.result = IF images = <<>>
                               THEN <<[status |-> "no_new_data"]>> ELSE <<>>]
    /\ UNCHANGED <<raw, weekly_batch, pool, uploaded, mb, gateVars, evalVars,
                   driftVars>>

\* processed_files, weekly_batch_prefix = preprocess_and_move(images, labels)
WeeklyPreprocessAndMove ==
    /\ wk.pc = "preprocess_and_move"
    /\ \E failed_images \in SUBSET FailIndices(wk.images),
          failed_labels \in SUBSET FailIndices(wk.labels) :
           LET files == preprocess_and_move(wk.images, wk.labels,
                                            failed_images, failed_labels)
           IN  /\ processed_files' = files
               /\ weekly_batch' = weekly_batch \cup {files[i] : i \in DOMAIN files}
    /\ wk' = [wk EXCEPT !.calls = Append(@, "preprocess_and_move"),
                        !.pc = "cleanup_batch_folders"]
    /\ UNCHANGED <<raw, pool, uploaded, mb, baseline, ks_crit, dd, gateVars,
                   evalVars>>

\* cleanup_batch_folders(batch_folders)
WeeklyCleanup ==
    /\ wk.pc = "cleanup_batch_folders"
    /\ LET objects_to_delete == cleanup_batch_folders(raw, wk.batch_folders)
       IN  /\ raw' = raw \ objects_to_delete
           /\ wk' = [wk EXCEPT !.deleted = objects_to_delete,
                               !.calls = Append(@, "cleanup_batch_folders"),
                               !.pc = "detect_drift"]
    /\ UNCHANGED <<weekly_batch, pool, uploaded, mb, gateVars, evalVars,
                   driftVars>>

\* drift_detected, drift_score = detect_drift(processed_files, override_drift),
\* and the branch on drift_detected
WeeklyDetectDrift ==
    /\ wk.pc = "detect_drift"
    /\ \E sample \in Samples(processed_files, wk.override_drift, baseline) :
           LET o == detect_drift(processed_files, wk.override_drift, baseline,
                                 ks_crit, sample)
           IN  IF o.raised # None
               THEN wk' = [wk EXCEPT !.calls = Append(@, "detect_drift"),
                                     !.pc = "failed"]
               ELSE LET branch == DriftBranch(o.result[1].drift)
                    IN  wk' = [wk EXCEPT
                                 !.drift = o.result,
                                 !.calls = Append(@, "detect_drift"),
                                 !.pc = IF branch.trigger
                                        THEN "trigger_sagemaker_job"
                                        ELSE "returned",
                                 !.result =
                                     IF branch.trigger THEN <<>>
                                     ELSE <<[status |-> branch.status,
                                             drift_score |-> o.result[1].score,
                                             processed |-> Len(wk.images)]>>]
    /\ UNCHANGED <<raw, weekly_batch, pool, uploaded, mb, gateVars, evalVars,
                   driftVars>>

\* trigger_sagemaker_job(trigger_reason="drift_detected", epochs=50) and the
\* return that follows it
WeeklyTrigger ==
    /\ wk.pc = "trigger_sagemaker_job"
    /\ wk' = [wk EXCEPT
                !.calls = Append(@, "trigger_sagemaker_job"),
                !.pc = "returned",
                !.result = <<[status |-> DriftBranch(wk.drift[1].drift).status,
                              drift_score |-> wk.drift[1].score,
                              processed |-> Len(wk.images)]>>]
    /\ UNCHANGED <<raw, weekly_batch, pool, uploaded, mb, gateVars, evalVars,
                   driftVars>>

\* daily_batch_upload, running beside the weekly flow, copies an image of the
\* pool into the batch folder of the day (move_batch's copy_object)
DailyUploadCopies ==
    /\ ~uploaded
    /\ raw' = raw \cup {RawObject(Today, "images", <<0, 1>>, Dark)}
    /\ uploaded' = TRUE
    /\ UNCHANGED <<weekly_batch, pool, wk, mb, gateVars, evalVars, driftVars>>

\* the objects of batch folder f: n images of kind a and, if labelled, their
\* labels
BatchObjects(f, n, a, labelled) ==
    {RawObject(f, "images", <<f, i>>, a) : i \in 1..n}
        \cup (IF labelled
              THEN {RawObject(f, "labels", <<f, i>>, Corrupt) : i \in 1..n}
              ELSE {})

\* the sizes of the first batch folder: small ones, and enough for the drift check
FirstBatchSizes == (0..MaxBatchImages) \cup {MIN_IMAGES}

(***************************************************************************)
(* The daily upload: daily_batch_upload and its move_batch task.  An       *)
(* object of the simulation pool is [dir, name, body].                     *)
(***************************************************************************)
BATCH_SIZE == 10

PoolObject(dir, name, body) == [dir |-> dir, name |-> name, body |-> body]

Min(a, b) == IF a < b THEN a ELSE b

\* get_available_images(limit): the first limit image keys among the first
\* 2 * limit keys listed under simulation_pool/images/
get_available_images(store, limit) ==
    LET listed == SortKeys({o \in store : o.dir = "images"})
        contents == SubSeq(listed, 1, Min(Len(listed), limit * 2))
    IN  SubSeq(contents, 1, Min(Len(contents), limit))

\* label_key = image_key.replace('/images/', '/labels/').rsplit('.', 1)[0] + '.txt'
LabelKey(image_key) == [dir |-> "labels", name |-> image_key.name]

\* the loop body that goes on to the delete when the copy of the image failed
AfterCallIgnoreCopyFailure(call, outcome) ==
    CASE call = "copy_image" -> [pc |-> "delete_image", moved |-> 0]
      [] call = "delete_image" /\ outcome = "ok" -> [pc |-> "copy_label", moved |-> 0]
      [] call = "copy_label" /\ outcome = "ok" -> [pc |-> "delete_label", moved |-> 0]
      [] call = "copy_label" /\ outcome = "NoSuchKey" -> [pc |-> "next", moved |-> 1]
      [] call = "delete_label" /\ outcome = "ok" -> [pc |-> "next", moved |-> 1]
      [] OTHER -> [pc |-> "next", moved |-> 0]

\* The body of the loop of move_batch: what follows an S3 call and its
\* outcome.  "next" ends the iteration, with moved += 1 or, through
\* "except Exception: continue", without it.
AfterCall(call, outcome) ==
    CASE call = "copy_image" /\ outcome = "ok" -> [pc |-> "delete_image", moved |-> 0]
      [] call = "delete_image" /\ outcome = "ok" -> [pc |-> "copy_label", moved |-> 0]
      [] call = "copy_label" /\ outcome = "ok" -> [pc |-> "delete_label", moved |-> 0]
      [] call = "copy_label" /\ outcome = "NoSuchKey" -> [pc |-> "next", moved |-> 1]
      [] call = "delete_label" /\ outcome = "ok" -> [pc |-> "next", moved |-> 1]
      [] OTHER -> [pc |-> "next", moved |-> 0]

\* a daily flow run that has not started
IdleMove ==
    [pc |-> "idle", image_keys |-> <<>>, i |-> 0, moved |-> 0,
     copied |-> {}, removed |-> {}, labels_copied |-> {}, labels_removed |-> {},
     pool_at_start |-> {}, result |-> <<>>]

\* the locals of move_batch after an S3 call of the current iteration
Advance(m, call, outcome) ==
    LET after == AfterCall(call, outcome)
    IN  IF after.pc # "next" THEN [m EXCEPT !.pc = after.pc]
        ELSE IF m.i < Len(m.image_keys)
        THEN [m EXCEPT !.pc = "copy_image", !.i = @ + 1, !.moved = @ + after.moved]
        ELSE [m EXCEPT !.pc = "return", !.moved = @ + after.moved]

\* daily_batch_upload starts: get_available_images(BATCH_SIZE), the branch on
\* its result, and the entry into move_batch
DailyStart ==
    /\ mb.pc = "idle"
    /\ LET images == get_available_images(pool, BATCH_SIZE)
       IN  IF images = <<>>
           THEN mb' = [mb EXCEPT !.pc = "returned",
                                 !.result = <<[status |-> "no_images", moved |-> 0]>>]
           ELSE mb' = [mb EXCEPT !.pc = "copy_image", !.image_keys = images,
                                 !.i = 1, !.pool_at_start = pool]
    /\ UNCHANGED <<raw, weekly_batch, pool, wk, uploaded, gateVars, evalVars,
                   driftVars>>

\* s3.copy_object of the image into the batch folder of the day
CopyImage(outcome) ==
    /\ mb.pc = "copy_image"
    /\ LET image_key == mb.image_keys[mb.i]
       IN  IF outcome = "ok"
           THEN /\ raw' = raw \cup {RawObject(Today, "images", image_key.name,
                                              image_key.body)}
                /\ mb' = Advance([mb EXCEPT !.copied = @ \cup {image_key.name}],
                                 "copy_image", outcome)
           ELSE /\ raw' = raw
                /\ mb' = Advance(mb, "copy_image", outcome)
    /\ UNCHANGED <<weekly_batch, pool, wk, uploaded, gateVars, evalVars, driftVars>>

\* s3.delete_object of the image
DeleteImage(outcome) ==
    /\ mb.pc = "delete_image"
    /\ LET image_key == mb.image_keys[mb.i]
       IN  IF outcome = "ok"
           THEN /\ pool' = pool \ {image_key}
                /\ mb' = Advance([mb EXCEPT !.removed = @ \cup {image_key.name}],
                                 "delete_image", outcome)
           ELSE /\ pool' = pool
                /\ mb' = Advance(mb, "delete_image", outcome)
    /\ UNCHANGED <<raw, weekly_batch, wk, uploaded, gateVars, evalVars, driftVars>>

\* s3.copy_object of the label: NoSuchKey when the pool holds no such label
CopyLabel(outcome) ==
    /\ mb.pc = "copy_label"
    /\ LET label_key == LabelKey(mb.image_keys[mb.i])
           found == {o \in pool : o.dir = label_key.dir /\ o.name = label_key.name}
       IN  /\ outcome = "ok" => found # {}
           /\ outcome = "NoSuchKey" => found = {}
           /\ IF outcome = "ok"
              THEN /\ raw' = raw \cup {RawObject(Today, o.dir, o.name, o.body) :
                                          o \in found}
                   /\ mb' = Advance([mb EXCEPT !.labels_copied = @ \cup {label_key.name}],
                                    "copy_label", outcome)
              ELSE /\ raw' = raw
                   /\ mb' = Advance(mb, "copy_label", outcome)
    /\ UNCHANGED <<weekly_batch, pool, wk, uploaded, gateVars, evalVars, driftVars>>

\* s3.delete_object of the label
DeleteLabel(outcome) ==
    /\ mb.pc = "delete_label"
    /\ LET label_key == LabelKey(mb.image_keys[mb.i])
       IN  IF outcome = "ok"
           THEN /\ pool' = {o \in pool : ~(o.dir = label_key.dir
                                             /\ o.name = label_key.name)}
                /\ mb' = Advance([mb EXCEPT !.labels_removed = @ \cup {label_key.name}],
                                 "delete_label", outcome)
           ELSE /\ pool' = pool
                /\ mb' = Advance(mb, "delete_label", outcome)
    /\ UNCHANGED <<raw, weekly_batch, wk, uploaded, gateVars, evalVars, driftVars>>

\* move_batch returns moved; daily_batch_upload calls get_stats, prints
\* "Moved: {moved} images" and returns
DailyReturn ==
    /\ mb.pc = "return"
    /\ mb' = [mb EXCEPT
                !.pc = "returned",
                !.result =
                    <<[status |-> "success", moved |-> mb.moved,
                       pool_remaining |->
                           Cardinality({o \in pool : o.dir = "images"}),
                       incoming_total |->
                           Cardinality({o \in raw : o.dir = "images"})]>>]
    /\ UNCHANGED <<raw, weekly_batch, pool, wk, uploaded, gateVars, evalVars,
                   driftVars>>

\* the pool: n images, those numbered in labelled with a label
PoolObjects(n, labelled) ==
    {PoolObject("images", <<0, i>>, Dark) : i \in 1..n}
        \cup {PoolObject("labels", <<0, i>>, Corrupt) : i \in labelled}

InitIngestIdle ==
    /\ raw = {}
    /\ weekly_batch = {}
    /\ pool = {}
    /\ wk = IdleWeekly
    /\ uploaded = FALSE
    /\ mb = IdleMove

InitDriftIdle ==
    /\ processed_files = <<>>
    /\ baseline = [status |-> "no_contents", keys |-> <<>>]
    /\ ks_crit = Score(1, 2)
    /\ dd = <<>>

InitGateIdle ==
    /\ incoming_metrics = <<>>
    /\ prod_metrics = <<>>
    /\ gate = NotCalled

InitEvalIdle ==
    /\ stage = [v \in Versions |-> "None"]
    /\ metrics = [r \in RunIds |-> BaseMetrics]
    /\ ev = [r \in FlowRuns |-> IdleRun]
    /\ transitions = <<>>

(***************************************************************************)
(* SpecGate: print_and_compare_metrics on every pair of metric mappings    *)
(* within the bounds.                                                      *)
(***************************************************************************)
InitGate ==
    /\ incoming_metrics \in MetricMappings(MaxChallengerMetric)
    /\ prod_metrics \in MetricMappings(MaxIncumbentMetric)
    /\ gate = NotCalled
    /\ InitEvalIdle
    /\ InitDriftIdle
    /\ InitIngestIdle

NextGate == CallGate

SpecGate == InitGate /\ [][NextGate]_vars

(***************************************************************************)
(* Spec: evaluate_pipeline runs, one after the other, on a registry in any *)
(* assignment of stages.                                                   *)
(***************************************************************************)
Init ==
    /\ InitGateIdle
    /\ stage \in [Versions -> InitialStages]
    /\ metrics \in InitialMetrics
    /\ ev = [r \in FlowRuns |-> IdleRun]
    /\ transitions = <<>>
    /\ InitDriftIdle
    /\ InitIngestIdle

Next ==
    \E r \in FlowRuns :
        \/ \E incoming_run_id \in RunIds : StartEvaluate(r, incoming_run_id)
        \/ GetIncomingMetrics(r)
        \/ GetProductionRunInfo(r)
        \/ GetProdMetrics(r)
        \/ Compare(r)
        \/ PromoteSearch(r)
        \/ PromoteFirstTransition(r)
        \/ PromoteSecondTransition(r)
        \/ TransitionFails(r)

Spec == Init /\ [][Next]_vars

(***************************************************************************)
(* SpecBeside: evaluate_pipeline runs that are under way at the same time, *)
(* their steps interleaved, on a registry in any assignment of stages.     *)
(***************************************************************************)
InitBeside == Init

NextBeside ==
    \E r \in FlowRuns :
        \/ \E incoming_run_id \in RunIds : StartEvaluateBeside(r, incoming_run_id)
        \/ GetIncomingMetrics(r)
        \/ GetProductionRunInfo(r)
        \/ GetProdMetrics(r)
        \/ Compare(r)
        \/ PromoteSearch(r)
        \/ PromoteFirstTransition(r)
        \/ PromoteSecondTransition(r)
        \/ TransitionFails(r)

SpecBeside == InitBeside /\ [][NextBeside]_vars

(***************************************************************************)
(* SpecDrift: detect_drift, called again and again, on candidate sets *)
(* and object stores within the bounds.                                    *)
(***************************************************************************)
InitDrift ==
    /\ InitGateIdle
    /\ InitEvalIdle
    /\ \E n \in 0..MaxImages, a \in {Dark, Red}, b \in {Dark, Gray, Corrupt},
          l \in 0..MaxLabels, labelsFirst \in BOOLEAN :
           /\ (l = 0 => ~labelsFirst)
           /\ processed_files = Candidates(n, a, b, l, labelsFirst)
    /\ \/ baseline \in {[status |-> "error", keys |-> <<>>],
                        [status |-> "no_contents", keys |-> <<>>]}
       \/ \E n \in BaselineSizes, a \in {Dark, Gray}, firstBad \in BOOLEAN :
           /\ (n = 0 => ~firstBad)
           /\ baseline = [status |-> "ok", keys |-> BaselineKeys(n, a, firstBad)]
    /\ ks_crit \in {Score(1, 2), Score(1, 4)}
    /\ dd = <<>>
    /\ InitIngestIdle

NextDrift == \E override_drift \in Overrides : CallDetectDrift(override_drift)

SpecDrift == InitDrift /\ [][NextDrift]_vars

(***************************************************************************)
(* SpecWeekly: one run of weekly_ingestion_pipeline on batch folders       *)
(* within the bounds, with the daily upload adding an object beside it.    *)
(***************************************************************************)
InitWeekly ==
    /\ InitGateIdle
    /\ InitEvalIdle
    /\ \E n \in FirstBatchSizes, a \in {Dark, Red}, labelled \in BOOLEAN,
          others \in SUBSET (BatchFolders \ {1}), stray \in BOOLEAN :
           raw = BatchObjects(1, n, a, labelled)
                   \cup UNION {BatchObjects(f, 1, a, labelled) : f \in others}
                   \cup (IF stray
                         THEN {RawObject(1, "labels", <<1, 0>>, Corrupt)}
                         ELSE {})
    /\ weekly_batch = {}
    /\ pool = {}
    /\ wk = IdleWeekly
    /\ uploaded = FALSE
    /\ mb = IdleMove
    /\ processed_files = <<>>
    /\ baseline \in {[status |-> "no_contents", keys |-> <<>>],
                     [status |-> "ok",
                      keys |-> BaselineKeys(MIN_IMAGES, Dark, FALSE)]}
    /\ ks_crit = Score(1, 2)
    /\ dd = <<>>

NextWeekly ==
    \/ \E override_drift \in Overrides : WeeklyGetBatchFolders(override_drift)
    \/ WeeklyGetFiles
    \/ WeeklyPreprocessAndMove
    \/ WeeklyCleanup
    \/ WeeklyDetectDrift
    \/ WeeklyTrigger
    \/ DailyUploadCopies

SpecWeekly == InitWeekly /\ [][NextWeekly]_vars

(***************************************************************************)
(* SpecDaily: one run of daily_batch_upload on pools within the bounds,    *)
(* every S3 call of move_batch succeeding or failing.                      *)
(***************************************************************************)
InitDaily ==
    /\ InitGateIdle
    /\ InitEvalIdle
    /\ InitDriftIdle
    /\ raw = {}
    /\ weekly_batch = {}
    /\ \E n \in 0..MaxPoolImages : \E labelled \in SUBSET (1..n) :
           pool = PoolObjects(n, labelled)
    /\ wk = IdleWeekly
    /\ uploaded = FALSE
    /\ mb = IdleMove

NextDaily ==
    \/ DailyStart
    \/ \E outcome \in {"ok", "error"} : CopyImage(outcome)
    \/ \E outcome \in {"ok", "error"} : DeleteImage(outcome)
    \/ \E outcome \in {"ok", "NoSuchKey", "error"} : CopyLabel(outcome)
    \/ \E outcome \in {"ok", "error"} : DeleteLabel(outcome)
    \/ DailyReturn

SpecDaily == InitDaily /\ [][NextDaily]_vars

(***************************************************************************)
(* Claims about the promotion gate (checked under SpecGate).               *)
(***************************************************************************)
\* a metric of a mapping as the claims read it: absent is 0.0
MetricOr0(d, k) == IF k \in DOMAIN d THEN d[k] ELSE 0
Delta(k) == MetricOr0(incoming_metrics, k) - MetricOr0(prod_metrics, k)

\* the decision rule as the specification states it
RuleHolds ==
    /\ Delta(K_MAP50_95) >= 2
    /\ \/ Delta(K_MAP50) >= 2
       \/ Delta(K_PRECISION) >= 1
       \/ Delta(K_RECALL) >= 1

AllPresent == DOMAIN incoming_metrics = GateKeys /\ DOMAIN prod_metrics = GateKeys
SomeAbsent == ~AllPresent

\* C1: on mappings that hold the four metrics, the task returns True iff the
\* mAP50-95 delta is >= 0.02 and one of the mAP50 (>= 0.02), precision
\* (>= 0.01), recall (>= 0.01) deltas passes; a delta equal to its threshold
\* passes, and a failing mAP50-95 delta gives False whatever the others are.
C1_GateIffRule ==
    (gate.called /\ AllPresent) =>
        /\ gate.raised = None
        /\ gate.value <=> RuleHolds
        /\ (Delta(K_MAP50_95) < 2) => ~gate.value
        /\ (Delta(K_MAP50_95) = 2 /\ Delta(K_PRECISION) = 1) => gate.value

\* C1 witness: a promotion decided with the mAP50-95 delta exactly at 0.02 and
\* precision exactly at 0.01, the other two failing
C1_Witness ==
    /\ gate.called /\ AllPresent /\ gate.value
    /\ Delta(K_MAP50_95) = 2 /\ Delta(K_PRECISION) = 1
    /\ Delta(K_MAP50) < 2 /\ Delta(K_RECALL) < 1

\* C2: with any of the four metrics absent from either mapping the task raises
\* nothing and returns the decision of the same rule with the absent metric
\* read as 0.0.
C2_MissingMetricIsZero ==
    (gate.called /\ SomeAbsent) =>
        /\ gate.raised = None
        /\ gate.value \in BOOLEAN
        /\ gate.value <=> RuleHolds

\* C2 witness: the incumbent has no mAP50-95 and no recall, the challenger no
\* precision, and the decision is to promote
C2_Witness ==
    /\ gate.called /\ gate.raised = None /\ gate.value
    /\ K_MAP50_95 \notin DOMAIN prod_metrics
    /\ K_RECALL \notin DOMAIN prod_metrics
    /\ K_PRECISION \notin DOMAIN incoming_metrics

(***************************************************************************)
(* Claims about evaluate_pipeline and the registry (checked under Spec).   *)
(***************************************************************************)
ProductionCount(st) == Cardinality(InStage(st, "Production"))

TransitionsOf(r) == SelectSeq(transitions, LAMBDA t : t.run = r)

\* no run after r has started: the registry is as run r left it
LastStarted(r) == \A q \in FlowRuns : q > r => ev[q].pc = "idle"

\* C7: a run started with no version in stage Production ends in the
\* ValueError of get_production_run_info; it never evaluates the gate and
\* performs no stage transition.
C7_NoProductionIsHardError ==
    \A r \in FlowRuns :
        (Started(r) /\ ProductionCount(ev[r].stage_at_start) = 0) =>
            /\ ev[r].pc \in {"get_incoming_metrics", "get_production_run_info",
                             "failed"}
            /\ ~ev[r].gate_called
            /\ TransitionsOf(r) = <<>>
            /\ LastStarted(r) => stage = ev[r].stage_at_start
            /\ ev[r].pc = "failed" =>
                   /\ ev[r].error = "ValueError"
                   /\ ev[r].failed_at = "get_production_run_info"

\* C7 witness: a run on a registry with no Production version has failed
C7_Witness ==
    \E r \in FlowRuns :
        /\ ev[r].pc = "failed"
        /\ ProductionCount(ev[r].stage_at_start) = 0
        /\ ev[r].failed_at = "get_production_run_info"

\* a run that decided to promote and whose promotion completed
Promoted(r) == ev[r].pc = "done" /\ ev[r].should_promote

\* C8: after a completed promotion that started with the incumbent as the only
\* Production version, the incumbent is Archived and the version registered
\* from the incoming run is the one and only Production version.
C8_PromotionOutcome ==
    \A r \in FlowRuns :
        (Promoted(r) /\ LastStarted(r)
           /\ ProductionCount(ev[r].stage_at_start) = 1) =>
            /\ InStage(ev[r].stage_at_start, "Production") = {ev[r].prod_version}
            /\ stage[ev[r].prod_version] = "Archived"
            /\ run_id_of(ev[r].incoming_version) = ev[r].incoming_run_id
            /\ InStage(stage, "Production") = {ev[r].incoming_version}

\* C8 witness: a completed promotion from a registry with one Production version
C8_Witness ==
    \E r \in FlowRuns :
        /\ Promoted(r) /\ LastStarted(r)
        /\ ProductionCount(ev[r].stage_at_start) = 1

\* a run inside promote_model_to_production, between its search and its return
InPromotion(r) == ev[r].pc \in {"first_transition", "second_transition"}

ArchiveOf(r) == [run |-> r, version |-> ev[r].prod_version, to |-> "Archived"]
PromoteOf(r) == [run |-> r, version |-> ev[r].incoming_version, to |-> "Production"]

\* the archive of the incumbent precedes the move of the challenger
ArchivePrecedesPromote(r) ==
    /\ ev[r].pc = "first_transition" => TransitionsOf(r) = <<>>
    /\ ev[r].pc = "second_transition" => TransitionsOf(r) = <<ArchiveOf(r)>>
    /\ Promoted(r) => TransitionsOf(r) = <<ArchiveOf(r), PromoteOf(r)>>

\* C9 as stated: the archive precedes the promotion and no intermediate state
\* of a promotion that started with exactly one Production version has zero or
\* two Production versions.
C9_Original ==
    \A r \in FlowRuns :
        /\ ArchivePrecedesPromote(r)
        /\ (InPromotion(r) /\ ProductionCount(ev[r].stage_at_start) = 1) =>
               ProductionCount(stage) = 1

\* C9 as amended: the archive precedes the promotion; no intermediate state of
\* a promotion that started with exactly one Production version has two
\* Production versions, and between the two transitions it has none.
C9_ArchiveFirstNeverTwo ==
    \A r \in FlowRuns :
        /\ ArchivePrecedesPromote(r)
        /\ (InPromotion(r) /\ ProductionCount(ev[r].stage_at_start) = 1) =>
               /\ ProductionCount(stage) <= 1
               /\ ev[r].pc = "second_transition" => ProductionCount(stage) = 0

\* C9 witness: between the two transitions of a promotion that started with
\* exactly one Production version
C9_Witness ==
    \E r \in FlowRuns :
        /\ ev[r].pc = "second_transition"
        /\ ProductionCount(ev[r].stage_at_start) = 1
        /\ TransitionsOf(r) = <<ArchiveOf(r)>>

\* run q is a rerun of run r, which failed between its two transitions
RerunAfterPartialFailure(r, q) ==
    /\ r < q
    /\ ev[r].pc = "failed" /\ ev[r].failed_at = "second_transition"
    /\ ProductionCount(ev[r].stage_at_start) = 1
    /\ Ended(q) /\ LastStarted(q)
    /\ ev[q].incoming_run_id = ev[r].incoming_run_id

\* C10: the rerun of evaluate_pipeline with the same incoming run, after a
\* failure between the archive and the Production transition, completes and
\* leaves the challenger in Production and the incumbent Archived.
C10_RerunIsSafe ==
    \A r, q \in FlowRuns :
        RerunAfterPartialFailure(r, q) =>
            /\ ev[q].pc = "done"
            /\ stage[ev[r].incoming_version] = "Production"
            /\ stage[ev[r].prod_version] = "Archived"
            /\ ProductionCount(stage) = 1

\* the transitions applied, in order, to a registry
RECURSIVE ApplyTransitions(_, _, _)
ApplyTransitions(st, ts, i) ==
    IF i > Len(ts) THEN st
    ELSE ApplyTransitions([st EXCEPT ![ts[i].version] = ts[i].to], ts, i + 1)

\* a run that ended without the gate passing, or in the error of the search
EndedWithoutPromotion(r) ==
    /\ Ended(r)
    /\ \/ ev[r].gate_called /\ ev[r].error = None /\ ~ev[r].should_promote
       \/ ev[r].failed_at = "search"

\* C18: a run performs a stage transition only when the gate returned True and
\* a registered version with the incoming run_id exists; when the gate returns
\* False, or no version matches the incoming run_id (ValueError), the stages
\* of all versions, the incumbent's Production included, are left as they were.
C18_TransitionOnlyAfterGateAndVersion ==
    /\ Started(1) => stage = ApplyTransitions(ev[1].stage_at_start, transitions, 1)
    /\ \A r \in FlowRuns :
        /\ TransitionsOf(r) # <<>> =>
               /\ ev[r].gate_called /\ ev[r].should_promote
               /\ ev[r].incoming_version \in Versions
               /\ run_id_of(ev[r].incoming_version) = ev[r].incoming_run_id
        /\ EndedWithoutPromotion(r) =>
               /\ TransitionsOf(r) = <<>>
               /\ LastStarted(r) => stage = ev[r].stage_at_start

\* C18 witness: the gate passed, no registered version has the incoming
\* run_id, the run ended in ValueError and the incumbent is still in Production
C18_Witness ==
    \E r \in FlowRuns :
        /\ ev[r].pc = "failed" /\ ev[r].failed_at = "search"
        /\ ev[r].error = "ValueError"
        /\ ev[r].should_promote
        /\ LastStarted(r)
        /\ stage[ev[r].prod_version] = "Production"
        /\ stage = ev[r].stage_at_start

(***************************************************************************)
(* Claims about detect_drift (checked under SpecDrift).                    *)
(***************************************************************************)
Called == dd # <<>>
LastCall == dd[1]
NumImages == Len(SelectSeq(processed_files, IsImageKey))

Returned(call, drift, num, den) ==
    /\ call.outcome.raised = None
    /\ call.outcome.result = <<[drift |-> drift, score |-> Score(num, den)]>>

\* the call touched neither the object store nor the statistics
NoStoreAccess(call) ==
    /\ call.outcome.lists = 0
    /\ call.outcome.gets = 0
    /\ call.outcome.tests = 0

\* C3: with override_drift True the task returns (True, 0.67) and with False
\* (False, 0.32), whatever processed_files and the object store hold; it
\* makes no object-store call on these paths, and a repeated call returns
\* the same.
C3_OverrideFixedResult ==
    Called =>
        /\ LastCall.override = "True" =>
               Returned(LastCall, TRUE, 67, 100) /\ NoStoreAccess(LastCall)
        /\ LastCall.override = "False" =>
               Returned(LastCall, FALSE, 32, 100) /\ NoStoreAccess(LastCall)

\* C3 witness: a repeated call with the override set, on fewer than 30 images
\* and a baseline whose listing fails
C3_Witness ==
    /\ Called /\ LastCall.override = "True" /\ LastCall.again
    /\ NumImages < MIN_IMAGES
    /\ baseline.status = "error"
    /\ Returned(LastCall, TRUE, 67, 100)

\* C4: with the override unset and fewer than 30 image entries the task
\* returns (False, 0.0) whatever the entries hold, without listing the
\* baseline, fetching an image or running a test.
C4_TooFewImagesSkips ==
    (Called /\ LastCall.override = "None" /\ NumImages < 30) =>
        /\ Returned(LastCall, FALSE, 0, 1)
        /\ NoStoreAccess(LastCall)

\* C4 witness: 29 images, unreadable ones among them, and one label entry
C4_Witness ==
    /\ Called /\ LastCall.override = "None"
    /\ NumImages = 29 /\ Len(processed_files) > NumImages
    /\ \E i \in DOMAIN processed_files :
           IsImageKey(processed_files[i]) /\ ~processed_files[i].body.ok
    /\ Returned(LastCall, FALSE, 0, 1)

\* the call ran the five KS tests
StatisticalPath(call) == call.outcome.tests > 0

PropSet == {PropNames[i] : i \in DOMAIN PropNames}

\* C5: on the statistical path the verdict is True iff one of the five
\* p-values is strictly below 0.05; a p-value of exactly 0.05 does not count.
C5_VerdictIffAnyBelow ==
    (Called /\ StatisticalPath(LastCall)) =>
        /\ LastCall.override = "None" /\ NumImages >= 30
        /\ baseline.status = "ok"
        /\ LastCall.outcome.raised = None
        /\ DOMAIN LastCall.outcome.drift_scores = PropSet
        /\ LastCall.outcome.result[1].drift <=>
               \E prop \in PropSet : LastCall.outcome.drift_scores[prop].pvalue < 50

\* C5 witness: a p-value of exactly 0.05, none below it, and the verdict False
C5_Witness ==
    /\ Called /\ StatisticalPath(LastCall)
    /\ \E prop \in PropSet : LastCall.outcome.drift_scores[prop].pvalue = 50
    /\ \A prop \in PropSet : LastCall.outcome.drift_scores[prop].pvalue >= 50
    /\ ~LastCall.outcome.result[1].drift

\* the last line the call printed is that of the except clause
PrintedError(call) ==
    /\ call.outcome.out # <<>>
    /\ call.outcome.out[Len(call.outcome.out)].line = "error"

UnreadableCandidate ==
    \E i \in DOMAIN processed_files :
        IsImageKey(processed_files[i]) /\ ~processed_files[i].body.ok

\* C6: a failure of the baseline listing, or of the fetching or decoding of a
\* baseline or candidate image, makes the task return (False, 0.0); nothing
\* is raised to the flow.
C6_FailureIsNoDrift ==
    (Called /\ LastCall.override = "None" /\ NumImages >= 30
        /\ (baseline.status = "error" \/ UnreadableCandidate
              \/ PrintedError(LastCall))) =>
        /\ Returned(LastCall, FALSE, 0, 1)
        /\ LastCall.outcome.tests = 0

\* C6 witness: the baseline was read, a candidate image could not be, and the
\* call returned (False, 0.0)
C6_Witness ==
    /\ Called /\ LastCall.override = "None" /\ NumImages >= 30
    /\ baseline.status = "ok" /\ UnreadableCandidate
    /\ PrintedError(LastCall)
    /\ LastCall.outcome.gets > SmallBaseline
    /\ Returned(LastCall, FALSE, 0, 1)

\* the baseline images of the listing, and the sample the last call compared
BaselinePool == SelectSeq(baseline.keys, IsImageExt)
LastSample == LastCall.outcome.baseline_sample

\* C12: on the statistical path the baseline sample has the size
\* min(baseline images, candidate images): a subset of the baseline images of
\* exactly the candidate size, no image twice, when the baseline is larger
\* than the candidate set, and the whole baseline otherwise.
C12_BaselineSampleSize ==
    (Called /\ StatisticalPath(LastCall)) =>
        /\ Len(LastSample) = IF Len(BaselinePool) < NumImages
                             THEN Len(BaselinePool) ELSE NumImages
        /\ \A i \in DOMAIN LastSample :
               \E j \in DOMAIN BaselinePool : BaselinePool[j] = LastSample[i]
        /\ \A i, j \in DOMAIN LastSample :
               i # j => LastSample[i].name # LastSample[j].name
        /\ Len(BaselinePool) <= NumImages => LastSample = BaselinePool

\* C12 witness: a baseline of more images than the candidate set, and a sample
\* that is not its head
C12_Witness ==
    /\ Called /\ StatisticalPath(LastCall)
    /\ Len(BaselinePool) > NumImages
    /\ Len(LastSample) = NumImages
    /\ LastSample[1] # BaselinePool[1]

\* C13: the result of detect_drift (verdict and score) is the same when the
\* candidate keys and the baseline listing come in another order.
C13_OrderInvariant ==
    Called =>
        /\ LastCall.reordered.raised = LastCall.outcome.raised
        /\ LastCall.reordered.result = LastCall.outcome.result

\* C13 witness: both lists reversed, a sample drawn from the baseline, and a
\* score that is not 0
C13_Witness ==
    /\ Called /\ StatisticalPath(LastCall)
    /\ LastCall.reordering = <<"reversed", "reversed">>
    /\ Len(BaselinePool) > NumImages
    /\ LastCall.outcome.result[1].score.num > 0
    /\ LastCall.reordered.result = LastCall.outcome.result

\* C15: on the statistical path the score is the unweighted mean of the five
\* KS statistics, whichever of them triggered the verdict, and lies in [0, 1].
\* (A statistic is recorded as its numerator over n1 * n2.)
C15_ScoreIsMeanOfFive ==
    (Called /\ StatisticalPath(LastCall)) =>
        LET score == LastCall.outcome.result[1].score
            ds == LastCall.outcome.drift_scores
            n == Len(LastSample) * NumImages
            sum == ds["brightness"].statistic + ds["contrast"].statistic
                     + ds["r_mean"].statistic + ds["g_mean"].statistic
                     + ds["b_mean"].statistic
        IN  /\ DOMAIN ds = PropSet
            /\ n > 0 /\ score.den > 0
            /\ \A prop \in PropSet :
                   0 <= ds[prop].statistic /\ ds[prop].statistic <= n
            /\ score.num * 5 * n = sum * score.den
            /\ 0 <= score.num /\ score.num <= score.den

\* C15 witness: a statistic that triggered the verdict, another that is not 0
\* and did not, and a score strictly between 0 and 1
C15_Witness ==
    /\ Called /\ StatisticalPath(LastCall)
    /\ \E prop \in PropSet : LastCall.outcome.drift_scores[prop].pvalue < 50
    /\ \E prop \in PropSet :
           /\ LastCall.outcome.drift_scores[prop].pvalue >= 50
           /\ LastCall.outcome.drift_scores[prop].statistic > 0
    /\ 0 < LastCall.outcome.result[1].score.num
    /\ LastCall.outcome.result[1].score.num < LastCall.outcome.result[1].score.den

\* the call printed the "Drift analysis:" lines, one per statistic
LoggedStatistics(call) ==
    \E i \in DOMAIN call.outcome.out : call.outcome.out[i].line = "drift_analysis"

\* C14: every decision logs the numeric comparison before the boolean is
\* produced: print_and_compare_metrics has logged the metrics of both sides
\* whenever it returns, and detect_drift has logged the per-statistic values
\* whenever it returns a verdict.
C14_DecisionsAreLogged ==
    /\ (gate.called /\ gate.raised = None) => gate.logged
    /\ (Called /\ LastCall.outcome.raised = None) => LoggedStatistics(LastCall)

(***************************************************************************)
(* Claims about weekly_ingestion_pipeline (checked under SpecWeekly).      *)
(***************************************************************************)
\* the positions of a task in the run's sequence of task calls
CallsOf(task) == {i \in DOMAIN wk.calls : wk.calls[i] = task}

Triggered == CallsOf("trigger_sagemaker_job") # {}
DriftReturned == wk.drift # <<>>
DriftDetected == DriftReturned /\ wk.drift[1].drift
FoundImages == wk.images # <<>>

\* C11: the retraining trigger is invoked iff detect_drift returned True for
\* the run, and then after detect_drift returned; a run that found images
\* returns "retrained" in exactly that case, "no_retrain_needed" otherwise.
C11_TriggerIffDrift ==
    /\ \A i \in CallsOf("trigger_sagemaker_job") :
           /\ DriftDetected
           /\ \E j \in CallsOf("detect_drift") : j < i
    /\ (wk.pc = "returned" /\ FoundImages) =>
           /\ DriftReturned
           /\ Triggered <=> wk.drift[1].drift
           /\ wk.drift[1].drift => wk.result[1].status = "retrained"
           /\ ~wk.drift[1].drift => wk.result[1].status = "no_retrain_needed"

\* C11 witness: a run without override whose five tests found drift has
\* triggered the retraining and returned "retrained"
C11_Witness ==
    /\ wk.pc = "returned" /\ wk.override_drift = "None"
    /\ DriftDetected /\ Triggered
    /\ wk.result[1].status = "retrained"

\* C16: every object cleanup_batch_folders deletes from a batch folder has
\* been copied into the run's weekly batch folder, also when a copy of
\* preprocess_and_move fails and when the daily upload adds an object between
\* the listing and the cleanup.
C16_DeletedWasCopied ==
    \A o \in wk.deleted : NewObject(o) \in weekly_batch

(***************************************************************************)
(* Claims about concurrent evaluate_pipeline runs (checked under           *)
(* SpecBeside).                                                            *)
(***************************************************************************)
\* two runs, each with its own challenger that passed the gate against the
\* same incumbent, started on a registry with that incumbent alone in
\* Production
SameIncumbentTwoChallengers(r, q) ==
    /\ r # q
    /\ ev[r].should_promote /\ ev[q].should_promote
    /\ ev[r].prod_version = ev[q].prod_version
    /\ ev[r].incoming_run_id # ev[q].incoming_run_id
    /\ ProductionCount(ev[r].stage_at_start) = 1
    /\ ProductionCount(ev[q].stage_at_start) = 1

\* C17: for any interleaving of two runs, each with a different challenger
\* that passes the gate against the same incumbent, the registry never has
\* more than one version in stage Production.
C17_NeverTwoProductionBeside ==
    \A r, q \in FlowRuns :
        SameIncumbentTwoChallengers(r, q) => ProductionCount(stage) <= 1

(***************************************************************************)
(* Claims about daily_batch_upload and move_batch (checked under           *)
(* SpecDaily).                                                             *)
(***************************************************************************)
InputImages == {mb.image_keys[i] : i \in DOMAIN mb.image_keys}
InputLabels ==
    {o \in mb.pool_at_start :
        o.dir = "labels" /\ \E img \in InputImages : img.name = o.name}
InIncoming(o) == RawObject(Today, o.dir, o.name, o.body) \in raw

\* C19: an image is deleted from the pool only after its copy into the
\* incoming batch folder succeeded: in every state, and after any failure of
\* a copy or delete call, each input image is in the pool or in incoming (or
\* in both); the same holds for each label.
C19_NeverLost ==
    /\ mb.removed \subseteq mb.copied
    /\ mb.labels_removed \subseteq mb.labels_copied
    /\ \A o \in InputImages \cup InputLabels : o \in pool \/ InIncoming(o)

\* C19 witness: the call has returned; one image was copied and its delete
\* failed (it is in both places), another was moved with its label
C19_Witness ==
    /\ mb.pc = "returned"
    /\ \E o \in InputImages : o \in pool /\ InIncoming(o)
    /\ \E o \in InputImages : o \notin pool /\ InIncoming(o)
    /\ \E o \in InputLabels : o \notin pool /\ InIncoming(o)

\* C20: the count move_batch returns, which daily_batch_upload reports as
\* "Moved: N images", is the number of input images that the call copied to
\* incoming and deleted from the pool, whatever copy and delete calls failed.
C20_CountIsImagesMoved ==
    (mb.pc = "returned" /\ mb.image_keys # <<>>) =>
        mb.result[1].moved = Cardinality(mb.copied \cap mb.removed)

====
